---- MODULE Spec2Model ----
(***************************************************************************)
(* A model of the ReAct reasoning/acting loop of the search agent:         *)
(* Model (state store), Planner, Controller, ToolBox, WebSearchTool and    *)
(* ReActFramework, as wired together by GeneralAgent.                      *)
(*                                                                         *)
(* Strings are sequences of words.  The words that the parser's regular    *)
(* expressions look for ("Thought:", "Action:", "Action Parameters:",      *)
(* "Final Answer:") are single words, "\n" is the white-space word, and    *)
(* every other word is opaque text.                                        *)
(***************************************************************************)
EXTENDS Integers, Sequences, FiniteSets, TLC

\* ------------------------------------------------------------------------
\* Bounds of the model
\* ------------------------------------------------------------------------

\* Largest configured iteration ceiling explored by the single-session
\* specification (config.agents.general.maxIterations ranges over 1..this).
MaxIterations == 2

\* Largest configured iteration ceiling explored with two concurrent sessions.
MaxIterationsConc == 2

\* Longest completion reply (in words) enumerated by the parser specification.
MaxReplyLen == 4

\* Longest source list of an execute call enumerated by the tool specification.
MaxSources == 3

\* Longest evidence list of a state enumerated by the formatting specification.
MaxEvidence == 6

\* ------------------------------------------------------------------------
\* Strings
\* ------------------------------------------------------------------------

WS == "\n"

EmptyStr == << >>

\* A trim that leaves the text as it is.
TrimNone(s) == s

\* String.prototype.trim
RECURSIVE TrimLeft(_)
TrimLeft(s) ==
  IF s = << >> THEN << >>
  ELSE IF Head(s) = WS THEN TrimLeft(Tail(s)) ELSE s

RECURSIVE TrimRight(_)
TrimRight(s) ==
  IF s = << >> THEN << >>
  ELSE IF s[Len(s)] = WS THEN TrimRight(SubSeq(s, 1, Len(s) - 1)) ELSE s

Trim(s) == TrimRight(TrimLeft(s))

\* JavaScript truthiness of a string: the empty string is falsy.
Truthy(s) == s # << >>

\* Positions of word w in s.
Occurrences(s, w) == {i \in 1..Len(s) : s[i] = w}

Min(S) == CHOOSE x \in S : \A y \in S : x <= y

\* The text captured by /<label>(.*?)(?=<stop1>|<stop2>|$)/s : from the word
\* after the leftmost <label> up to (not including) the first stop word, or
\* to the end of the text.  has = the regular expression matched.
LazyCapture(s, label, stops) ==
  IF Occurrences(s, label) = {} THEN [has |-> FALSE, text |-> << >>]
  ELSE LET i == Min(Occurrences(s, label))
           ends == {j \in (i + 1)..Len(s) : s[j] \in stops}
           e == IF ends = {} THEN Len(s) + 1 ELSE Min(ends)
       IN [has |-> TRUE, text |-> SubSeq(s, i + 1, e - 1)]

\* ------------------------------------------------------------------------
\* Planner.parseActionResponse
\* ------------------------------------------------------------------------

ThoughtLabel == "Thought:"
ActionLabel == "Action:"
ParamsLabel == "Action Parameters:"
FinalLabel == "Final Answer:"

\* Words that /true|false/i matches after "Final Answer:".
BoolWords == {"true", "false", "TRUE"}

ToLowerCase(w) == IF w = "TRUE" THEN "true" ELSE w

\* JSON texts (one word each), and the words that open and close a fenced
\* code block (three backquotes, with or without json).
JsonEmpty == "{}"
JsonQuery == "{query: audio issue}"
JsonSources == "{sources: [google]}"
JsonNull == "null"
KvQuery == "query:audio"
Fences == {"<fence>json", "<fence>"}

\* Action parameters: a JavaScript value that is null or an object of which
\* the tools read the keys query and sources (other: it has further keys).
EmptyParams ==
  [null |-> FALSE, query |-> << >>, hasSources |-> FALSE, sources |-> << >>,
   other |-> FALSE]

NullParams == [EmptyParams EXCEPT !.null = TRUE]

QueryParams(q) == [EmptyParams EXCEPT !.query = q]

\* paramsText.replace(fences, ""), line 321
RECURSIVE RemoveFences(_)
RemoveFences(s) ==
  IF s = << >> THEN << >>
  ELSE IF Head(s) \in Fences THEN RemoveFences(Tail(s))
       ELSE <<Head(s)>> \o RemoveFences(Tail(s))

\* JSON.parse: ok = FALSE when it throws a SyntaxError.
JsonParse(s) ==
  IF s = <<JsonEmpty>> THEN [ok |-> TRUE, value |-> EmptyParams]
  ELSE IF s = <<JsonQuery>> THEN [ok |-> TRUE, value |-> QueryParams(<<"audio issue">>)]
  ELSE IF s = <<JsonSources>>
       THEN [ok |-> TRUE,
             value |-> [EmptyParams EXCEPT !.hasSources = TRUE, !.sources = <<"google">>]]
  ELSE IF s = <<JsonNull>> THEN [ok |-> TRUE, value |-> NullParams]
  ELSE [ok |-> FALSE, value |-> EmptyParams]

\* text.split("\n")
RECURSIVE SplitLines(_)
SplitLines(s) ==
  IF Occurrences(s, WS) = {} THEN <<s>>
  ELSE LET i == Min(Occurrences(s, WS))
       IN <<SubSeq(s, 1, i - 1)>> \o SplitLines(SubSeq(s, i + 1, Len(s)))

HasColon(w) == w \in {ThoughtLabel, ActionLabel, ParamsLabel, FinalLabel, KvQuery}

\* The line-by-line "key: value" fallback, lines 328-336.  A line that is
\* the word query:audio sets query; any other line holding a colon sets some
\* other key, which no tool reads.
RECURSIVE ParseParamLines(_, _)
ParseParamLines(lines, acc) ==
  IF lines = << >> THEN acc
  ELSE LET line == Head(lines)
           next == IF line = <<KvQuery>> THEN [acc EXCEPT !.query = <<"audio">>]
                   ELSE IF \E i \in 1..Len(line) : HasColon(line[i])
                        THEN [acc EXCEPT !.other = TRUE]
                        ELSE acc
       IN ParseParamLines(Tail(lines), next)

\* Lines 311-338: the action parameters of a reply.
ParseActionParams(response) ==
  LET paramsMatch == LazyCapture(response, ParamsLabel, {FinalLabel})
      jsonContent == Trim(RemoveFences(Trim(paramsMatch.text)))
      parsed == JsonParse(jsonContent)
  IN IF ~paramsMatch.has THEN EmptyParams
     ELSE IF parsed.ok THEN parsed.value
     ELSE ParseParamLines(SplitLines(paramsMatch.text), EmptyParams)

\* /Final Answer:\s*(true|false)/i : the leftmost "Final Answer:" that is
\* followed, after optional white space, by a word starting true or false.
RECURSIVE SkipWs(_, _)
SkipWs(s, i) == IF i <= Len(s) /\ s[i] = WS THEN SkipWs(s, i + 1) ELSE i

FinalMatches(s) ==
  {i \in Occurrences(s, FinalLabel) :
     SkipWs(s, i + 1) <= Len(s) /\ s[SkipWs(s, i + 1)] \in BoolWords}

ParseShouldFinish(response) ==
  IF FinalMatches(response) = {} THEN FALSE
  ELSE LET i == Min(FinalMatches(response))
       IN ToLowerCase(response[SkipWs(response, i + 1)]) = "true"

\* An action, or JavaScript null.
NullAction == [null |-> TRUE, name |-> << >>, params |-> EmptyParams]

MkAction(n, ps) == [null |-> FALSE, name |-> n, params |-> ps]

SearchName == <<"search">>

\* The message of the ReferenceError raised by line 352, where the
\* identifier state is not in scope.
StateNotDefined == <<"state is not defined">>

\* The stop words of the regular expression that captures the action name,
\* line 307.
ActionStops == {ParamsLabel}

\* Lines 299-368.  threw: the call raised an exception with message msg.
parseActionResponse(response) ==
  LET thought == Trim(LazyCapture(response, ThoughtLabel, {ActionLabel, FinalLabel}).text)
      actionName == Trim(LazyCapture(response, ActionLabel, ActionStops).text)
      actionParams == ParseActionParams(response)
      shouldFinish == ParseShouldFinish(response)
  IN IF ~Truthy(actionName) /\ ~shouldFinish
     THEN [threw |-> TRUE, msg |-> StateNotDefined,
           thought |-> thought, action |-> NullAction, shouldFinish |-> FALSE]
     ELSE [threw |-> FALSE, msg |-> << >>,
           thought |-> thought,
           action |-> IF Truthy(actionName) THEN MkAction(actionName, actionParams)
                      ELSE NullAction,
           shouldFinish |-> shouldFinish]

\* ------------------------------------------------------------------------
\* Planner.planNextAction
\* ------------------------------------------------------------------------

\* The outcome of a completion-service call: a reply text, or a failure with the
\* message of the Error that ClaudeClient.complete throws.
CompletionFailed == <<"Failed to get completion from Claude">>

Reply(text) == [ok |-> TRUE, text |-> text]

Failure == [ok |-> FALSE, text |-> CompletionFailed]

PlanErrorPrefix == "Error planning next action:"

\* The catch block with a fallback action that carries no query.
FallbackPlanNoQuery(query, message) ==
  [thought |-> <<PlanErrorPrefix>> \o message,
   action |-> MkAction(SearchName, EmptyParams),
   shouldFinish |-> FALSE]

\* The decision of the catch block, lines 225-237.
FallbackPlan(query, message) ==
  [thought |-> <<PlanErrorPrefix>> \o message,
   action |-> MkAction(SearchName, QueryParams(query)),
   shouldFinish |-> FALSE]

\* planNextAction with a catch block that reports the error and plans no
\* action.
planNextActionNoFallback(query, c) ==
  IF ~c.ok
  THEN [thought |-> <<PlanErrorPrefix>> \o c.text, action |-> NullAction,
        shouldFinish |-> FALSE]
  ELSE LET r == parseActionResponse(c.text)
       IN IF r.threw THEN FallbackPlan(query, r.msg)
          ELSE [thought |-> r.thought, action |-> r.action,
                shouldFinish |-> r.shouldFinish]

\* Lines 205-238: the decision for the completion outcome c, in a session
\* whose state holds query.
planNextAction(query, c) ==
  IF ~c.ok THEN FallbackPlan(query, c.text)
  ELSE LET r == parseActionResponse(c.text)
       IN IF r.threw THEN FallbackPlan(query, r.msg)
          ELSE [thought |-> r.thought, action |-> r.action,
                shouldFinish |-> r.shouldFinish]

\* ------------------------------------------------------------------------
\* Model: the state store
\* ------------------------------------------------------------------------

\* The sessions (process() calls) that may run on the one GeneralAgent.
Procs == {1, 2}

\* Identities of conversation arrays: 0 is the array of the constructor, p
\* the array that the initializeState call of session p creates.
ConvIds == {0} \cup Procs

\* state.finalAnswer: null, or a string (possibly empty).
NoAnswer == [null |-> TRUE, text |-> << >>]

Answer(text) == [null |-> FALSE, text |-> text]

\* A test for null only: it takes the empty string for an answer.
AnswerNotNull(a) == ~a.null

\* JavaScript truthiness of state.finalAnswer.
AnswerTruthy(a) == ~a.null /\ Truthy(a.text)

\* Lines 8-15: the state object made by the constructor (it has no query and
\* no finalAnswer; both read as absent).
ConstructedState ==
  [query |-> << >>, conv |-> 0, context |-> [sources |-> << >>], sources |-> << >>,
   iterations |-> 0, finalAnswer |-> NoAnswer]

\* A heap h holds the state object that Model.state points to (h.m), the
\* conversation arrays (h.convs), and for each session the object that the
\* local variable state of executeReActLoop points to (h.ls): the Model's
\* current object (cur) or an object that the Model has since replaced,
\* kept by value (val).  Replaced objects are never written again, except
\* through the conversation array they share.
NoLocal == [cur |-> FALSE, val |-> ConstructedState]

\* Every local variable that points to the current object keeps pointing
\* to it once the Model points to a new one.
Detach(h) ==
  [q \in Procs |-> IF h.ls[q].cur THEN [cur |-> FALSE, val |-> h.m] ELSE h.ls[q]]

\* The object a session's local variable state points to.
Deref(h, p) == IF h.ls[p].cur THEN h.m ELSE h.ls[p].val

\* Model.getState, assigned to the local variable of session p.
getState(h, p) == [h EXCEPT !.ls[p] = [cur |-> TRUE, val |-> ConstructedState]]

\* Lines 22-34.  The call of session p creates conversation array p.
initializeState(h, p, query, context) ==
  [m |-> [query |-> query, conv |-> p, context |-> context, sources |-> << >>,
          iterations |-> 0, finalAnswer |-> NoAnswer],
   convs |-> [h.convs EXCEPT ![p] = <<[role |-> "user", content |-> query]>>],
   ls |-> Detach(h)]

Urls(list) == {list[i].url : i \in 1..Len(list)}

\* list.filter((s, i, self) => i === self.findIndex(x => x.url === s.url))
RECURSIVE DedupByUrl(_, _)
DedupByUrl(list, seen) ==
  IF list = << >> THEN << >>
  ELSE IF Head(list).url \in seen THEN DedupByUrl(Tail(list), seen)
       ELSE <<Head(list)>> \o DedupByUrl(Tail(list), seen \cup {Head(list).url})

\* A merge without the filter of lines 51-54.
MergeSourcesNoFilter(held, given) == held \o given

\* Lines 46-55: the list that an update with sources leaves in state.sources.
\* held is this.state.sources as line 48 reads it, that is after the spread
\* of lines 41-44 has already assigned updates.sources to it.
MergeSources(held, given) == DedupByUrl(held \o given, {})

\* An update that adds n to the count it finds.
updateIterationsAdds(h, n) ==
  [h EXCEPT !.m = [h.m EXCEPT !.iterations = @ + n], !.ls = Detach(h)]

\* Lines 40-59 for updates = {iterations: n}.
updateIterations(h, n) ==
  [h EXCEPT !.m = [h.m EXCEPT !.iterations = n], !.ls = Detach(h)]

\* Lines 40-59 for updates = {sources: given}.
updateSources(h, given) ==
  LET spread == [h.m EXCEPT !.sources = given]
  IN [h EXCEPT !.m = [spread EXCEPT !.sources = MergeSources(spread.sources, given)],
               !.ls = Detach(h)]

\* An entry put at the head of the array.
PushFront(h, entry) == [h EXCEPT !.convs[h.m.conv] = <<entry>> \o @]

\* this.state.conversation.push(entry)
Push(h, entry) == [h EXCEPT !.convs[h.m.conv] = Append(@, entry)]

\* Lines 66-74.
addObservation(h, observation, actionName) ==
  Push(h, [role |-> "system",
           content |-> <<"Observation from">> \o actionName \o <<":">> \o observation])

\* Lines 80-88.
addReasoning(h, thought) ==
  Push(h, [role |-> "system", content |-> <<"Thinking:">> \o thought])

\* setFinalAnswer without the push of lines 96-99.
setFinalAnswerNoEntry(h, answer) == [h EXCEPT !.m.finalAnswer = Answer(answer)]

\* Lines 94-103.
setFinalAnswer(h, answer) ==
  Push([h EXCEPT !.m.finalAnswer = Answer(answer)],
       [role |-> "assistant", content |-> answer])

\* ------------------------------------------------------------------------
\* WebSearchTool
\* ------------------------------------------------------------------------

\* Line 23: the sources searched when the parameters name none.
DefaultToolSources == <<"zoomCommunity", "zoomSupport", "google">>

SourceIds == {"zoomCommunity", "zoomSupport", "google"}

\* Line 49.
TopN == 5

\* What the connectors of the three sources return when they succeed.  The
\* first google result has the url of the first zoomCommunity result.
Catalogue(source) ==
  IF source = "zoomCommunity"
  THEN <<[title |-> "c1", url |-> "u1", source |-> "Zoom Community", relevance |-> 70],
         [title |-> "c2", url |-> "u2", source |-> "Zoom Community", relevance |-> 60]>>
  ELSE IF source = "zoomSupport"
  THEN <<[title |-> "s1", url |-> "u3", source |-> "Zoom Support", relevance |-> 65],
         [title |-> "s2", url |-> "u4", source |-> "Zoom Support", relevance |-> 60]>>
  ELSE <<[title |-> "g1", url |-> "u1", source |-> "Google Search", relevance |-> 90],
         [title |-> "g2", url |-> "u5", source |-> "Google Search", relevance |-> 50]>>

\* The settled promise of one searchSource call.
Fulfilled(list) == [status |-> "fulfilled", value |-> list]

Rejected == [status |-> "rejected", value |-> << >>]

\* Line 29: one searchSource call per entry of the source list; settled gives
\* how the call for each source settles.
searchSourceAll(sources, settled) == [i \in 1..Len(sources) |-> settled[sources[i]]]

\* The requests complete in the order of their places in the list.
IdentityOrder(n) == [i \in 1..n |-> i]

\* An aggregate that lists the outcomes as the requests complete.
allSettledByCompletion(promises, order) ==
  [k \in 1..Len(promises) |-> promises[order[k]]]

\* Line 30, Promise.allSettled: order[k] is the place of the request that
\* completes k-th; the outcomes are listed by the place of their promise in
\* the input.
allSettled(promises, order) == [i \in 1..Len(promises) |-> promises[i]]

\* An aggregation that gives up at the first rejected request.
RECURSIVE FlattenAbortOnReject(_)
FlattenAbortOnReject(searchResults) ==
  IF \E i \in 1..Len(searchResults) : searchResults[i].status # "fulfilled"
  THEN << >>
  ELSE IF searchResults = << >> THEN << >>
  ELSE Head(searchResults).value \o FlattenAbortOnReject(Tail(searchResults))

\* Lines 33-43: the fulfilled values, in the order of the settled list; a
\* rejected request contributes nothing.
RECURSIVE Flatten(_)
Flatten(searchResults) ==
  IF searchResults = << >> THEN << >>
  ELSE (IF Head(searchResults).status = "fulfilled"
        THEN Head(searchResults).value ELSE << >>)
       \o Flatten(Tail(searchResults))

\* Array.prototype.sort with (a, b) => b.relevance - a.relevance: a stable
\* sort, descending.
RECURSIVE InsertRanked(_, _)
InsertRanked(sorted, x) ==
  IF sorted = << >> THEN <<x>>
  ELSE IF Head(sorted).relevance >= x.relevance
       THEN <<Head(sorted)>> \o InsertRanked(Tail(sorted), x)
       ELSE <<x>> \o sorted

RECURSIVE RankFrom(_, _)
RankFrom(results, sorted) ==
  IF results = << >> THEN sorted
  ELSE RankFrom(Tail(results), InsertRanked(sorted, Head(results)))

\* A ranking with the comparator reversed: ascending scores.
rankResultsAscending(results) ==
  LET ranked == RankFrom(results, << >>)
  IN [i \in 1..Len(ranked) |-> ranked[Len(ranked) + 1 - i]]

\* Lines 188-192.
rankResults(results) == RankFrom(results, << >>)

\* Array.prototype.slice(0, n)
Slice(list, n) == SubSeq(list, 1, IF Len(list) < n THEN Len(list) ELSE n)

SummaryText == <<"S">>

SummaryUnavailable == <<"Unable to generate summary due to an error.">>

\* summarizeResults without its catch: the text of the failure is used.
summarizeResultsNoCatch(c) == c.text

\* Lines 200-224, for the completion outcome c.
summarizeResults(c) == IF c.ok THEN c.text ELSE SummaryUnavailable

\* Lines 61-66: a ranked result as kept in the state.
ToEvidence(r) == [title |-> r.title, url |-> r.url, source |-> r.source]

RECURSIVE TitleLines(_, _)
TitleLines(results, i) ==
  IF results = << >> THEN << >>
  ELSE <<ToString(i), results[1].title, results[1].source, WS>>
       \o TitleLines(Tail(results), i + 1)

\* The result of an action: observation, sources (absent when ~hasSources)
\* and error (the empty string when absent).
Result(observation, hasSources, sources, error) ==
  [observation |-> observation, hasSources |-> hasSources, sources |-> sources,
   error |-> error]

\* The sources that execute searches, line 23.
EffectiveSources(params) ==
  IF params.hasSources THEN params.sources ELSE DefaultToolSources

\* Lines 21-76, for non-null params: settled gives the settled promise of
\* each source, order the order in which the requests complete, c the
\* outcome of the summary's completion call.  completions counts the calls
\* of the completion service (line 53: only when there are top results).
searchRun(params, settled, order, c) ==
  LET sources == EffectiveSources(params)
      searchResults == allSettled(searchSourceAll(sources, settled), order)
      allResults == Flatten(searchResults)
      topResults == Slice(rankResults(allResults), TopN)
      summary == IF Len(topResults) > 0 THEN summarizeResults(c) ELSE << >>
  IN [allResults |-> allResults,
      topResults |-> topResults,
      completions |-> IF Len(topResults) > 0 THEN 1 ELSE 0,
      result |->
        Result(<<"Found", ToString(Len(allResults)), "results across",
                 ToString(Len(sources)), "sources. Top results:">>
                 \o TitleLines(topResults, 1) \o <<"Summary:">> \o summary,
               TRUE,
               [i \in 1..Len(topResults) |-> ToEvidence(topResults[i])],
               << >>)]

\* The result of execute within a session.
searchExecute(params, settled, c) ==
  searchRun(params, settled, IdentityOrder(Len(EffectiveSources(params))), c).result

\* ------------------------------------------------------------------------
\* ToolBox and Controller.executeAction
\* ------------------------------------------------------------------------

\* A toolbox that resolves every name to the search tool.
HasToolAny(name) == TRUE

\* ToolBox.getTool: the only tool GeneralAgent registers is the search tool.
HasTool(name) == name = SearchName

ToolNotFound == <<"TOOL_NOT_FOUND">>

\* The TypeError of line 22 of the search tool when params is null.
NullParamsError == <<"Cannot read properties of null">>

\* executeAction whose catch block drops the error field.
executeActionNoError(action, settled, c) ==
  IF ~HasTool(action.name)
  THEN Result(<<"Error: Tool">> \o action.name \o <<"not found">>, FALSE, << >>,
              ToolNotFound)
  ELSE IF action.params.null
  THEN Result(<<"Error executing">> \o action.name \o <<":">> \o NullParamsError,
              FALSE, << >>, << >>)
  ELSE searchExecute(action.params, settled, c)

\* Lines 149-183 of the controller.
executeAction(action, settled, c) ==
  IF ~HasTool(action.name)
  THEN Result(<<"Error: Tool">> \o action.name \o <<"not found">>, FALSE, << >>,
              ToolNotFound)
  ELSE IF action.params.null
  THEN Result(<<"Error executing">> \o action.name \o <<":">> \o NullParamsError,
              FALSE, << >>, NullParamsError)
  ELSE searchExecute(action.params, settled, c)

\* ------------------------------------------------------------------------
\* Planner.generateFinalAnswer and ReActFramework.formatResponse
\* ------------------------------------------------------------------------

Apology == <<"I apologize, but I encountered an error while generating a response to your query.">>

\* Lines 378-410: what the prompt embeds of the state object it is given.
FinalPrompt(state, convs) ==
  [query |-> state.query, conversation |-> convs[state.conv], sources |-> state.sources]

NoPrompt == [query |-> << >>, conversation |-> << >>, sources |-> << >>]

\* generateFinalAnswer without its catch: the text of the failure is returned.
generateFinalAnswerNoCatch(c) == c.text

\* Lines 412-423, for the completion outcome c.
generateFinalAnswer(c) == IF c.ok THEN c.text ELSE Apology

Unable == <<"I was unable to generate a complete answer. Please try rephrasing your question.">>

\* Line 126.
ResponseCap == 5

NoDebugInfo == [iterations |-> 0, conversationHistory |-> << >>]

NoResponse ==
  [answer |-> << >>, sources |-> << >>, error |-> << >>, hasDebugInfo |-> FALSE,
   debugInfo |-> NoDebugInfo]

\* formatResponse without the fixed text that stands in for a missing answer.
formatResponseNoFallback(state, convs, dbg) ==
  [answer |-> state.finalAnswer.text,
   sources |-> Slice(DedupByUrl(state.sources, {}), ResponseCap),
   error |-> << >>,
   hasDebugInfo |-> dbg,
   debugInfo |-> IF dbg THEN [iterations |-> state.iterations,
                              conversationHistory |-> convs[state.conv]]
                 ELSE NoDebugInfo]

\* formatResponse without the cap of line 126.
formatResponseNoCap(state, convs, dbg) ==
  [answer |-> IF AnswerTruthy(state.finalAnswer) THEN state.finalAnswer.text ELSE Unable,
   sources |-> DedupByUrl(state.sources, {}),
   error |-> << >>,
   hasDebugInfo |-> dbg,
   debugInfo |-> IF dbg THEN [iterations |-> state.iterations,
                              conversationHistory |-> convs[state.conv]]
                 ELSE NoDebugInfo]

\* Lines 115-138 of the framework.
formatResponse(state, convs, dbg) ==
  [answer |-> IF AnswerTruthy(state.finalAnswer) THEN state.finalAnswer.text ELSE Unable,
   sources |-> Slice(DedupByUrl(state.sources, {}), ResponseCap),
   error |-> << >>,
   hasDebugInfo |-> dbg,
   debugInfo |-> IF dbg THEN [iterations |-> state.iterations,
                              conversationHistory |-> convs[state.conv]]
                 ELSE NoDebugInfo]

\* Lines 40-48 of the framework: the response of the catch block.
DegradedResponse(message) ==
  [answer |-> <<"I encountered an error while processing your query:">> \o message
              \o <<"Please try again or rephrase your question.">>,
   sources |-> << >>,
   error |-> message,
   hasDebugInfo |-> FALSE,
   debugInfo |-> NoDebugInfo]

\* ------------------------------------------------------------------------
\* The inputs of a session
\* ------------------------------------------------------------------------

\* The query of each session.
QueryOf(p) == IF p = 1 THEN <<"q1">> ELSE <<"q2">>

\* config.agents.general.defaultSources
DefaultSources == <<"zoomCommunity", "zoomSupport", "google">>

\* The selectedSources of a request: absent (the empty tuple) or a list.
Selections == {<< >>, <<"google">>}

\* The completion replies that a planning call may receive in a session.
ReplySearch ==
  <<ThoughtLabel, "X", WS, ActionLabel, "search", WS, ParamsLabel, JsonEmpty, WS,
    FinalLabel, "false">>
ReplyFinish == <<ThoughtLabel, "X", WS, FinalLabel, "true">>
ReplyThoughtOnly == <<ThoughtLabel, "X">>
ReplyUnknownTool == <<ThoughtLabel, "X", WS, ActionLabel, "lookup", WS, ParamsLabel, JsonEmpty>>
ReplyNullParams == <<ThoughtLabel, "X", WS, ActionLabel, "search", WS, ParamsLabel, JsonNull>>
ReplyGoogleOnly ==
  <<ThoughtLabel, "X", WS, ActionLabel, "search", WS, ParamsLabel, "<fence>json",
    JsonSources, "<fence>">>

ReplySearchAndFinish ==
  <<ThoughtLabel, "X", WS, ActionLabel, "search", WS, ParamsLabel, JsonEmpty, WS,
    FinalLabel, "true">>

SessionReplies ==
  {ReplySearch, ReplyFinish, ReplyThoughtOnly, ReplyUnknownTool, ReplyNullParams,
   ReplyGoogleOnly, ReplySearchAndFinish}

PlannerOutcomes == {Failure} \cup {Reply(r) : r \in SessionReplies}

\* The settled promises of the per-source requests of one search.
AllFulfilled == [s \in SourceIds |-> Fulfilled(Catalogue(s))]

\* getMockResults for a query that holds the word guide (line 159): the first
\* zoomSupport result scores 0.9, the second 0.6.
GuideResults ==
  <<[title |-> "s1", url |-> "u3", source |-> "Zoom Support", relevance |-> 90],
    [title |-> "s2", url |-> "u4", source |-> "Zoom Support", relevance |-> 60]>>

\* Only the zoomSupport request succeeds, with the results for such a query.
SupportOnly ==
  [s \in SourceIds |-> IF s = "zoomSupport" THEN Fulfilled(GuideResults) ELSE Rejected]

SearchOutcomes ==
  {AllFulfilled,
   [AllFulfilled EXCEPT !["google"] = Rejected],
   [s \in SourceIds |-> Rejected],
   SupportOnly}

SummaryOutcomes == {Reply(SummaryText), Failure}

\* The outcomes of the completion call of generateFinalAnswer.
AnswerOutcomes == {Reply(<<"A">>), Reply(<< >>), Failure}

\* ------------------------------------------------------------------------
\* The state of the program
\* ------------------------------------------------------------------------

VARIABLES
  maxIterations,  \* ReActFramework.maxIterations
  debug,          \* ReActFramework.debug
  mstate,         \* the object Model.state points to
  convs,          \* the conversation arrays
  lstate,         \* per session: the local variable state of executeReActLoop
  pc,             \* per session: where its process() call stands
  planResult,     \* per session: the local variable planResult
  actionResult,   \* per session: the local variable actionResult
  prompt,         \* per session: what the last final-answer prompt embedded
  response,       \* per session: the response returned by process()
  llm,            \* per session: the outcome of its last planning completion
  planCalls,      \* per session: planNextAction calls made
  finalCalls,     \* per session: generateFinalAnswer calls made
  execCalls,      \* per session: executeAction calls made
  setCalls,       \* per session: setFinalAnswer calls made
  fetched,        \* per session: the evidence its executeAction calls returned
  completed,      \* per session: whether one of its completion calls succeeded
  reply,          \* a planning call on its own: the state's query, the reply
  parsed,         \* a planning call on its own: the decision returned
  searchCall,     \* an execute call on its own: its params and what its calls do
  searchResult    \* an execute call on its own: what it returned

vars ==
  <<maxIterations, debug, mstate, convs, lstate, pc, planResult, actionResult,
    prompt, response, llm, planCalls, finalCalls, execCalls, setCalls, fetched,
    completed, reply, parsed, searchCall, searchResult>>

parserVars == <<reply, parsed>>

toolVars == <<searchCall, searchResult>>

Heap == [m |-> mstate, convs |-> convs, ls |-> lstate]

\* The heap after a step.
SetHeap(h) == mstate' = h.m /\ convs' = h.convs /\ lstate' = h.ls

NoPlan == [thought |-> << >>, action |-> NullAction, shouldFinish |-> FALSE]

\* One session runs alone (the other is never started).  With two sessions
\* the inputs of each are drawn from smaller sets.
Alone == \E p \in Procs : pc[p] = "off"

SelectionInputs == IF Alone THEN Selections ELSE {<< >>}

PlannerInputs ==
  IF Alone THEN PlannerOutcomes ELSE {Reply(ReplySearch), Reply(ReplyFinish)}

SearchInputs ==
  IF Alone THEN SearchOutcomes ELSE {AllFulfilled, [s \in SourceIds |-> Rejected]}

SummaryInputs == IF Alone THEN SummaryOutcomes ELSE {Reply(SummaryText)}

AnswerInputs == IF Alone THEN AnswerOutcomes ELSE {Reply(<<"A">>), Reply(<< >>)}

NoResult == Result(<< >>, FALSE, << >>, << >>)

NoReply == [query |-> << >>, text |-> << >>]

NotParsed == [done |-> FALSE, plan |-> NoPlan]

NoSearchCall ==
  [params |-> EmptyParams, settled |-> [s \in SourceIds |-> Rejected], order |-> << >>,
   c |-> Failure]

NoSearchResult ==
  [done |-> FALSE, allResults |-> << >>, topResults |-> << >>, completions |-> 0,
   result |-> NoResult]

\* ------------------------------------------------------------------------
\* ReActFramework.process and executeReActLoop
\* ------------------------------------------------------------------------

\* Line 12 of the framework: config.maxIterations || 5.
DefaultMaxIterations == 5

ConfiguredIterations(n) == IF n = 0 THEN DefaultMaxIterations ELSE n

\* No session has started, no call has been made.
InitLocals ==
  /\ lstate = [p \in Procs |-> NoLocal]
  /\ planResult = [p \in Procs |-> NoPlan]
  /\ actionResult = [p \in Procs |-> NoResult]
  /\ prompt = [p \in Procs |-> NoPrompt]
  /\ response = [p \in Procs |-> NoResponse]
  /\ llm = [p \in Procs |-> Failure]
  /\ planCalls = [p \in Procs |-> 0]
  /\ finalCalls = [p \in Procs |-> 0]
  /\ execCalls = [p \in Procs |-> 0]
  /\ setCalls = [p \in Procs |-> 0]
  /\ fetched = [p \in Procs |-> {}]
  /\ completed = [p \in Procs |-> FALSE]
  /\ parsed = NotParsed
  /\ searchResult = NoSearchResult

InitCommon ==
  /\ mstate = ConstructedState
  /\ convs = [c \in ConvIds |-> << >>]
  /\ InitLocals

\* One request: session 1 runs alone, session 2 is never started.
Init ==
  /\ InitCommon
  /\ debug \in BOOLEAN
  /\ maxIterations \in {ConfiguredIterations(n) : n \in 1..MaxIterations}
  /\ pc = [p \in Procs |-> IF p = 1 THEN "idle" ELSE "off"]
  /\ reply = NoReply
  /\ searchCall = NoSearchCall

\* Line 59 of the framework: the loop condition.
LoopConditionNoCeiling(state) == ~AnswerTruthy(state.finalAnswer)

LoopConditionInclusive(state) ==
  state.iterations <= maxIterations /\ ~AnswerTruthy(state.finalAnswer)

LoopCondition(state) ==
  state.iterations < maxIterations /\ ~AnswerTruthy(state.finalAnswer)

\* Line 99 of the framework: the forced completion.
ForceConditionExceeded(state) ==
  state.iterations > maxIterations /\ ~AnswerTruthy(state.finalAnswer)

\* A completion forced after every iteration that has left no answer.
ForceConditionEveryIteration(state) == ~AnswerTruthy(state.finalAnswer)

ForceCondition(state) ==
  state.iterations >= maxIterations /\ ~AnswerTruthy(state.finalAnswer)

\* The loop condition of line 59 for session p on heap h, and what follows
\* without an await: either lines 61-67 up to the completion call of
\* planNextAction, or the return of executeReActLoop.
LoopHead(h, p) ==
  LET state == Deref(h, p)
  IN IF LoopCondition(state)
     THEN /\ SetHeap(getState(updateIterations(h, state.iterations + 1), p))
          /\ planCalls' = [planCalls EXCEPT ![p] = @ + 1]
          /\ pc' = [pc EXCEPT ![p] = "planning"]
     ELSE /\ SetHeap(h)
          /\ planCalls' = planCalls
          /\ pc' = [pc EXCEPT ![p] = "returning"]

\* GeneralAgent.process and lines 22-30, 55-67 of the framework: a request
\* with selectedSources sel starts session p.
Process(p, sel) ==
  /\ pc[p] = "idle"
  /\ LET context == [sources |-> IF sel = << >> THEN DefaultSources ELSE sel]
     IN LoopHead(getState(initializeState(Heap, p, QueryOf(p), context), p), p)
  /\ UNCHANGED <<maxIterations, debug, planResult, actionResult, prompt, response,
                 llm, finalCalls, execCalls, setCalls, fetched, parserVars,
                 toolVars, completed>>

\* Lines 213-237 of the planner: the completion call settles with c and
\* planNextAction returns.
PlanNextAction(p, c) ==
  /\ pc[p] = "planning"
  /\ llm' = [llm EXCEPT ![p] = c]
  /\ completed' = [completed EXCEPT ![p] = @ \/ c.ok]
  /\ planResult' = [planResult EXCEPT ![p] = planNextAction(Deref(Heap, p).query, c)]
  /\ pc' = [pc EXCEPT ![p] = "planned"]
  /\ UNCHANGED <<maxIterations, debug, mstate, convs, lstate, actionResult, prompt,
                 response, planCalls, finalCalls, execCalls, setCalls, fetched,
                 parserVars,
                 toolVars>>

\* process() without its try/catch: the error leaves the call.
Propagated(message) == [pc |-> "threw", response |-> NoResponse]

\* Lines 40-48 of the framework: the catch around executeReActLoop and
\* formatResponse ends the call normally with the degraded response.
Caught(message) == [pc |-> "done", response |-> DegradedResponse(message)]

\* A loop that finishes only on a decision that names no action.
FinishDecisionWithoutAction(plan) == plan.shouldFinish /\ plan.action.null

\* Line 73 of the framework: the decision ends the loop.
FinishDecision(plan) == plan.shouldFinish

\* A loop that does not wait for executeAction to settle.
NotAwaited(call) == IF call = "acting" THEN "acted" ELSE call

\* Lines 67, 75, 80 and 103 of the framework: the loop awaits the call, so
\* the session stays at the call until it settles.
Pending(call) == call

\* The TypeError of line 150 of the controller when the action is null.
NullActionError == <<"Cannot destructure property 'name' of 'action' as it is null.">>

\* Lines 70-84 of the framework: the reasoning is recorded; then either
\* generateFinalAnswer or executeAction is called.
Think(p) ==
  /\ pc[p] = "planned"
  /\ LET h == addReasoning(Heap, planResult[p].thought)
     IN IF FinishDecision(planResult[p])
        THEN /\ SetHeap(h)
             /\ prompt' = [prompt EXCEPT ![p] = FinalPrompt(Deref(h, p), h.convs)]
             /\ finalCalls' = [finalCalls EXCEPT ![p] = @ + 1]
             /\ pc' = [pc EXCEPT ![p] = Pending("finishing")]
             /\ UNCHANGED <<execCalls, response>>
        ELSE IF planResult[p].action.null
        THEN /\ SetHeap([h EXCEPT !.ls[p] = NoLocal])
             /\ response' = [response EXCEPT ![p] = Caught(NullActionError).response]
             /\ execCalls' = [execCalls EXCEPT ![p] = @ + 1]
             /\ pc' = [pc EXCEPT ![p] = Caught(NullActionError).pc]
             /\ UNCHANGED <<prompt, finalCalls>>
        ELSE /\ SetHeap(h)
             /\ execCalls' = [execCalls EXCEPT ![p] = @ + 1]
             /\ pc' = [pc EXCEPT ![p] = Pending("acting")]
             /\ UNCHANGED <<prompt, finalCalls, response>>
  /\ UNCHANGED <<maxIterations, debug, planResult, actionResult, llm, planCalls,
                 setCalls, fetched, parserVars,
                 toolVars, completed>>

\* Lines 149-183 of the controller: the tool call settles (the per-source
\* requests with settled, the summary's completion call with c) and
\* executeAction returns.
ExecuteAction(p, settled, c) ==
  /\ pc[p] = "acting"
  /\ LET r == executeAction(planResult[p].action, settled, c)
     IN /\ actionResult' = [actionResult EXCEPT ![p] = r]
        /\ fetched' = [fetched EXCEPT ![p] = @ \cup {r.sources[i] : i \in 1..Len(r.sources)}]
        /\ completed' = [completed EXCEPT ![p] = @ \/ (r.sources # << >> /\ c.ok)]
  /\ pc' = [pc EXCEPT ![p] = "acted"]
  /\ UNCHANGED <<maxIterations, debug, mstate, convs, lstate, planResult, prompt,
                 response, llm, planCalls, finalCalls, execCalls, setCalls, parserVars,
                 toolVars>>

\* Lines 88-107 of the framework: the observation is recorded and the
\* evidence merged; then either the forced generateFinalAnswer call, or the
\* next evaluation of the loop condition.
Observe(p) ==
  /\ pc[p] = "acted"
  /\ LET h1 == addObservation(Heap, actionResult[p].observation, planResult[p].action.name)
         h2 == IF actionResult[p].hasSources
               THEN updateSources(h1, actionResult[p].sources) ELSE h1
         state == Deref(h2, p)
     IN IF ForceCondition(state)
        THEN /\ SetHeap(h2)
             /\ prompt' = [prompt EXCEPT ![p] = FinalPrompt(state, h2.convs)]
             /\ finalCalls' = [finalCalls EXCEPT ![p] = @ + 1]
             /\ pc' = [pc EXCEPT ![p] = "forcing"]
             /\ planCalls' = planCalls
        ELSE /\ LoopHead(getState(h2, p), p)
             /\ UNCHANGED <<prompt, finalCalls>>
  /\ UNCHANGED <<maxIterations, debug, planResult, actionResult, response, llm,
                 execCalls, setCalls, fetched, parserVars,
                 toolVars, completed>>

\* Lines 75-77 of the framework: the completion call of generateFinalAnswer
\* settles with c, the answer is set and the loop is left.
Finish(p, c) ==
  /\ pc[p] = "finishing"
  /\ SetHeap(setFinalAnswer(Heap, generateFinalAnswer(c)))
  /\ setCalls' = [setCalls EXCEPT ![p] = @ + 1]
  /\ completed' = [completed EXCEPT ![p] = @ \/ c.ok]
  /\ pc' = [pc EXCEPT ![p] = "returning"]
  /\ UNCHANGED <<maxIterations, debug, planResult, actionResult, prompt, response,
                 llm, planCalls, finalCalls, execCalls, fetched, parserVars,
                 toolVars>>

\* Lines 101-107 of the framework: the completion call of the forced
\* generateFinalAnswer settles with c, the answer is set and the loop
\* condition is evaluated again.
Force(p, c) ==
  /\ pc[p] = "forcing"
  /\ LoopHead(getState(setFinalAnswer(Heap, generateFinalAnswer(c)), p), p)
  /\ setCalls' = [setCalls EXCEPT ![p] = @ + 1]
  /\ completed' = [completed EXCEPT ![p] = @ \/ c.ok]
  /\ UNCHANGED <<maxIterations, debug, planResult, actionResult, prompt, response,
                 llm, finalCalls, execCalls, fetched, parserVars,
                 toolVars>>

\* Lines 33-39 of the framework: executeReActLoop has returned; the response
\* is formatted from the Model's current state.
Respond(p) ==
  /\ pc[p] = "returning"
  /\ response' = [response EXCEPT ![p] = formatResponse(mstate, convs, debug)]
  /\ lstate' = [lstate EXCEPT ![p] = NoLocal]
  /\ pc' = [pc EXCEPT ![p] = "done"]
  /\ UNCHANGED <<maxIterations, debug, mstate, convs, planResult, actionResult, prompt,
                 llm, planCalls, finalCalls, execCalls, setCalls, fetched, parserVars,
                 toolVars, completed>>

Next ==
  \E p \in Procs :
    \/ \E sel \in SelectionInputs : Process(p, sel)
    \/ \E c \in PlannerInputs : PlanNextAction(p, c)
    \/ Think(p)
    \/ \E settled \in SearchInputs, c \in SummaryInputs : ExecuteAction(p, settled, c)
    \/ Observe(p)
    \/ \E c \in AnswerInputs : Finish(p, c)
    \/ \E c \in AnswerInputs : Force(p, c)
    \/ Respond(p)

Spec == Init /\ [][Next]_vars

\* Two requests reach the one GeneralAgent of the controller module: their
\* process() calls run on the same Model and interleave at the awaits.
InitConc ==
  /\ InitCommon
  /\ debug = FALSE
  /\ maxIterations \in {ConfiguredIterations(n) : n \in 1..MaxIterationsConc}
  /\ pc = [p \in Procs |-> "idle"]
  /\ reply = NoReply
  /\ searchCall = NoSearchCall

SpecConc == InitConc /\ [][Next]_vars

\* ReActFramework takes its model, controller and planner as constructor
\* arguments (lines 8-14).  A collaborator other than the Planner and
\* Controller of model.js may reject the call the loop awaits: lines 67, 75,
\* 80 and 103 of the framework.
PendingCalls == {"planning", "acting", "finishing", "forcing"}

RejectMessages == {<<"planner unavailable">>, <<"tool crashed">>}

\* Lines 29-48 of the framework: the awaited call of session p rejects with
\* an Error carrying message; the rejection leaves executeReActLoop and is
\* handled by process().
Reject(p, message) ==
  /\ pc[p] \in PendingCalls
  /\ pc' = [pc EXCEPT ![p] = Caught(message).pc]
  /\ response' = [response EXCEPT ![p] = Caught(message).response]
  /\ lstate' = [lstate EXCEPT ![p] = NoLocal]
  /\ UNCHANGED <<maxIterations, debug, mstate, convs, planResult, actionResult, prompt,
                 llm, planCalls, finalCalls, execCalls, setCalls, fetched, parserVars,
                 toolVars, completed>>

RejectInputs == IF Alone THEN RejectMessages ELSE {<<"tool crashed">>}

NextFault ==
  \/ Next
  \/ \E p \in Procs, message \in RejectInputs : Reject(p, message)

SpecFault == Init /\ [][NextFault]_vars

\* Two overlapping process() calls whose awaited calls may reject.
SpecConcFault == InitConc /\ [][NextFault]_vars

\* ------------------------------------------------------------------------
\* A planning call on its own
\* ------------------------------------------------------------------------

ParseWords ==
  {ThoughtLabel, ActionLabel, ParamsLabel, FinalLabel, "X", "search", WS, "true",
   "false"}

SeqsUpTo(S, n) == UNION {[1..k -> S] : k \in 0..n}

\* The segments of a reply in the format the planning prompt asks for (lines
\* 268-280): the text as written after its label, and what it stands for.
ThoughtTexts ==
  {[raw |-> <<"X">>, value |-> <<"X">>],
   [raw |-> <<WS, "X", "X", WS>>, value |-> <<"X", "X">>]}

ActionTexts ==
  {[raw |-> <<"search">>, value |-> <<"search">>],
   [raw |-> <<WS, "lookup", WS>>, value |-> <<"lookup">>]}

ParamsTexts ==
  {[raw |-> <<JsonEmpty>>, value |-> EmptyParams],
   [raw |-> <<WS, JsonQuery, WS>>, value |-> QueryParams(<<"audio issue">>)],
   [raw |-> <<JsonSources, WS>>,
    value |-> [EmptyParams EXCEPT !.hasSources = TRUE, !.sources = <<"google">>]]}

FlagTexts ==
  {[raw |-> <<"true">>, value |-> TRUE],
   [raw |-> <<WS, "false">>, value |-> FALSE],
   [raw |-> <<"TRUE", WS>>, value |-> TRUE]}

StructuredReply(t, a, ps, f) ==
  <<ThoughtLabel>> \o t.raw \o <<ActionLabel>> \o a.raw \o <<ParamsLabel>> \o ps.raw
    \o <<FinalLabel>> \o f.raw

StructuredReplies ==
  {StructuredReply(t, a, ps, f) :
     t \in ThoughtTexts, a \in ActionTexts, ps \in ParamsTexts, f \in FlagTexts}

\* The replies a planning call is tried on: every text of at most
\* MaxReplyLen words, the replies of the sessions and the replies in the
\* format of the prompt.
Replies == SeqsUpTo(ParseWords, MaxReplyLen) \cup SessionReplies \cup StructuredReplies

InitParse ==
  /\ InitCommon
  /\ debug = FALSE
  /\ maxIterations = ConfiguredIterations(0)
  /\ pc = [p \in Procs |-> "off"]
  /\ reply \in [query : {QueryOf(p) : p \in Procs}, text : Replies]
  /\ searchCall = NoSearchCall

\* planNextAction on a state holding reply.query, whose completion call
\* returns reply.text.
PlanReply ==
  /\ ~parsed.done
  /\ parsed' = [done |-> TRUE, plan |-> planNextAction(reply.query, Reply(reply.text))]
  /\ UNCHANGED <<maxIterations, debug, mstate, convs, lstate, pc, planResult,
                 actionResult, prompt, response, llm, planCalls, finalCalls, execCalls,
                 setCalls, fetched, reply, toolVars, completed>>

NextParse == PlanReply

SpecParse == InitParse /\ [][NextParse]_vars

\* ------------------------------------------------------------------------
\* One execute call of the search tool
\* ------------------------------------------------------------------------

\* The orders in which n concurrent requests may complete.
CompletionOrders(n) ==
  {f \in [1..n -> 1..n] : \A i, j \in 1..n : f[i] = f[j] => i = j}

\* The params of the action: sources absent, or a list of at most MaxSources
\* source ids (a planner may name a source twice, or none).
SourceLists == SeqsUpTo(SourceIds, MaxSources)

SearchParams ==
  {QueryParams(<<"q1">>)}
    \cup {[QueryParams(<<"q1">>) EXCEPT !.hasSources = TRUE, !.sources = l] :
            l \in SourceLists}

\* Each searchSource call fulfils with what its connector returns, or rejects.
SettledOutcomes ==
  {st \in [SourceIds -> {Rejected} \cup {Fulfilled(Catalogue(s)) : s \in SourceIds}] :
     \A s \in SourceIds : st[s].status = "fulfilled" => st[s].value = Catalogue(s)}

SearchCalls ==
  UNION {[params : {ps},
          settled : SettledOutcomes,
          order : CompletionOrders(Len(EffectiveSources(ps))),
          c : SummaryOutcomes] : ps \in SearchParams}

InitSearch ==
  /\ InitCommon
  /\ debug = FALSE
  /\ maxIterations = ConfiguredIterations(0)
  /\ pc = [p \in Procs |-> "off"]
  /\ reply = NoReply
  /\ searchCall \in SearchCalls

\* execute(params, context) of the search tool, lines 21-76.
SearchCall ==
  /\ ~searchResult.done
  /\ searchResult' =
       [done |-> TRUE]
         @@ searchRun(searchCall.params, searchCall.settled, searchCall.order,
                      searchCall.c)
  /\ UNCHANGED <<maxIterations, debug, mstate, convs, lstate, pc, planResult,
                 actionResult, prompt, response, llm, planCalls, finalCalls, execCalls,
                 setCalls, fetched, parserVars, searchCall, completed>>

NextSearch == SearchCall

SpecSearch == InitSearch /\ [][NextSearch]_vars

\* ------------------------------------------------------------------------
\* One formatResponse call
\* ------------------------------------------------------------------------

\* Evidence items a state may hold: what the connectors return, and two
\* further items.
EvidencePool ==
  UNION {{ToEvidence(Catalogue(s)[j]) : j \in 1..Len(Catalogue(s))} : s \in SourceIds}
    \cup {[title |-> "x1", url |-> "u6", source |-> "Zoom Support"],
          [title |-> "x2", url |-> "u7", source |-> "Zoom Support"]}

\* The lists of at most n different members of S.
RECURSIVE DistinctSeqs(_, _)
DistinctSeqs(S, n) ==
  IF n = 0 THEN {<< >>}
  ELSE LET shorter == DistinctSeqs(S, n - 1)
       IN shorter \cup
          UNION {{Append(l, x) : x \in S \ {l[i] : i \in 1..Len(l)}} :
                   l \in {m \in shorter : Len(m) = n - 1}}

\* The lists of at most MaxEvidence different items.
EvidenceLists == DistinctSeqs(EvidencePool, MaxEvidence)

\* executeReActLoop has returned (line 30) with state.sources holding any
\* evidence list, with or without a final answer.
InitFormat ==
  /\ InitLocals
  /\ debug \in BOOLEAN
  /\ maxIterations = ConfiguredIterations(0)
  /\ \E l \in EvidenceLists, a \in {NoAnswer, Answer(<<"A">>)} :
       mstate = [query |-> QueryOf(1), conv |-> 1,
                 context |-> [sources |-> DefaultSources], sources |-> l,
                 iterations |-> 1, finalAnswer |-> a]
  /\ convs = [c \in ConvIds |->
                IF c = 1 THEN <<[role |-> "user", content |-> QueryOf(1)]>> ELSE << >>]
  /\ pc = [p \in Procs |-> IF p = 1 THEN "returning" ELSE "off"]
  /\ reply = NoReply
  /\ searchCall = NoSearchCall

NextFormat == Respond(1)

SpecFormat == InitFormat /\ [][NextFormat]_vars

\* ------------------------------------------------------------------------
\* Properties
\* ------------------------------------------------------------------------

Range(list) == {list[i] : i \in 1..Len(list)}

Running(p) == pc[p] \notin {"off", "idle", "done"}

\* C1: a session running alone makes at most maxIterations planNextAction
\* calls and at most one generateFinalAnswer call, hence at most
\* maxIterations + 1 planner calls, and it never stops short of returning:
\* while its process() call has not returned, a next step exists.
C1_BoundedPlannerCalls ==
  \A p \in Procs :
    /\ planCalls[p] <= maxIterations
    /\ finalCalls[p] <= 1
    /\ planCalls[p] + finalCalls[p] <= maxIterations + 1
    /\ (Running(p) \/ pc[p] = "idle") => ENABLED Next

\* A session has returned after maxIterations planning calls and one
\* final-answer call, with a ceiling of at least two.
C1_Witness ==
  /\ pc[1] = "done"
  /\ maxIterations >= 2
  /\ planCalls[1] = maxIterations
  /\ finalCalls[1] = 1

\* C2: two sessions that run concurrently on the same agent do not share
\* session state: while a session runs, the state it reads and writes (the
\* object of the state store, and the object its loop holds) is the one
\* initialised with its own query, and the sources of its response are
\* evidence that its own executeAction calls returned.
C2_SessionsIsolated ==
  \A p \in Procs :
    /\ Running(p) =>
         /\ mstate.query = QueryOf(p)
         /\ Deref(Heap, p).query = QueryOf(p)
    /\ pc[p] = "done" => Range(response[p].sources) \subseteq fetched[p]

\* C3: when a merge brings an item whose url the state already holds from
\* an earlier merge, the state afterwards holds exactly one entry with that
\* url, and it is the entry of the earlier merge.
C3_FirstSeenKept ==
  [][\A p \in Procs :
       (pc[p] = "acted" /\ pc'[p] # "acted" /\ actionResult[p].hasSources) =>
         \A e \in Range(mstate.sources) :
           e.url \in Urls(actionResult[p].sources) =>
             /\ e \in Range(mstate'.sources)
             /\ Cardinality({i \in 1..Len(mstate'.sources) :
                               mstate'.sources[i].url = e.url}) = 1]_vars

\* C4: a merge appends: the urls held afterwards are those held before
\* together with those given, and the entries held before stay, in their
\* order, ahead of the new ones.
C4_MergeAppends ==
  [][\A p \in Procs :
       (pc[p] = "acted" /\ pc'[p] # "acted" /\ actionResult[p].hasSources) =>
         /\ Urls(mstate'.sources) = Urls(mstate.sources) \cup Urls(actionResult[p].sources)
         /\ Len(mstate'.sources) >= Len(mstate.sources)
         /\ SubSeq(mstate'.sources, 1, Len(mstate.sources)) = mstate.sources]_vars

\* C5: in every reachable state of a session, the iteration count of the
\* state store, and of the state object the loop holds, is at most
\* maxIterations.
C5_IterationsBounded ==
  /\ mstate.iterations <= maxIterations
  /\ \A p \in Procs : Deref(Heap, p).iterations <= maxIterations

\* The count has reached a ceiling of at least two while the loop runs.
C5_Witness ==
  /\ maxIterations >= 2
  /\ mstate.iterations = maxIterations
  /\ pc[1] = "planning"

\* C6: when executeReActLoop has returned (without throwing), setFinalAnswer
\* has been called in the session and the answer is set; the last decision
\* asked to finish, or the iteration count has reached maxIterations.
C6_ReturnsWithAnswer ==
  \A p \in Procs :
    pc[p] = "returning" =>
      /\ setCalls[p] >= 1
      /\ ~mstate.finalAnswer.null
      /\ (planResult[p].shouldFinish \/ mstate.iterations = maxIterations)

\* The loop has returned after a forced completion: the last decision did
\* not ask to finish.
C6_Witness ==
  /\ pc[1] = "returning"
  /\ ~planResult[1].shouldFinish
  /\ setCalls[1] = 1

\* C7: if no planner decision asked to finish (a decision that does ends
\* the loop, so this is: the last decision did not), then the session made
\* exactly maxIterations planNextAction calls and as many executeAction
\* calls, then exactly one generateFinalAnswer call, and the answer of the
\* response is not empty.
C7_ForcedTermination ==
  \A p \in Procs :
    (pc[p] = "done" /\ ~planResult[p].shouldFinish) =>
      /\ planCalls[p] = maxIterations
      /\ execCalls[p] = maxIterations
      /\ finalCalls[p] = 1
      /\ setCalls[p] = 1
      /\ response[p].answer # << >>

\* A session of two iterations has returned without any decision to finish,
\* its forced final answer being the empty text.
C7_Witness ==
  /\ pc[1] = "done"
  /\ maxIterations = 2
  /\ ~planResult[1].shouldFinish
  /\ execCalls[1] = 2
  /\ ~mstate.finalAnswer.null
  /\ mstate.finalAnswer.text = << >>

\* C8: process() never lets an error leave the call.  No session is ever in
\* the state of a call that threw to its caller, and every step in which a
\* pending call of the loop body fails ends the session normally with a
\* response whose answer is the error text built around the message, whose
\* sources are empty and whose error field is the message.
C8_NeverPropagates ==
  /\ [](\A p \in Procs : pc[p] # "threw")
  /\ [][\A p \in Procs :
          (pc[p] \in PendingCalls \cup {"planned"} /\ pc'[p] \notin PendingCalls \cup
             {"planned", "acted", "returning"})
            => /\ pc'[p] = "done"
               /\ response'[p].sources = << >>
               /\ response'[p].error \in RejectMessages
               /\ response'[p].answer =
                    <<"I encountered an error while processing your query:">>
                      \o response'[p].error
                      \o <<"Please try again or rephrase your question.">>]_vars

\* C8: a session whose forced final-answer call failed has returned, after
\* evidence had been merged into the state, with the degraded response.
C8_Witness ==
  \E p \in Procs :
    /\ pc[p] = "done"
    /\ response[p].error \in RejectMessages
    /\ response[p].sources = << >>
    /\ finalCalls[p] = 1
    /\ setCalls[p] = 0
    /\ mstate.sources # << >>

\* C9: when the completion call of planNextAction fails, planNextAction
\* returns the decision whose thought is the error message, whose action is
\* search with the query of the state, and which does not finish; the loop
\* then calls executeAction, and the tool it names is registered.
C9_PlanningFailureFallsBack ==
  /\ [](\A p \in Procs :
          (pc[p] = "planned" /\ ~llm[p].ok) =>
            planResult[p] =
              [thought |-> <<"Error planning next action:",
                             "Failed to get completion from Claude">>,
               action |-> [null |-> FALSE, name |-> <<"search">>,
                           params |-> [EmptyParams EXCEPT !.query = QueryOf(p)]],
               shouldFinish |-> FALSE])
  /\ [][\A p \in Procs :
          (pc[p] = "planned" /\ ~llm[p].ok /\ pc'[p] # "planned") =>
            /\ pc'[p] = "acting"
            /\ execCalls'[p] = execCalls[p] + 1
            /\ HasTool(planResult'[p].action.name)]_vars

\* After a failed planning call the search tool is being executed.
C9_Witness ==
  /\ pc[1] = "acting"
  /\ ~llm[1].ok
  /\ planResult[1].action.name = <<"search">>

\* C10: for a reply without an Action: segment whose Final Answer flag is
\* false or absent, the decision carries the action search with the query
\* of the session and does not finish; and no decision that does not finish
\* has a null action.
C10_DefaultAction ==
  parsed.done =>
    /\ (Occurrences(reply.text, ActionLabel) = {} /\ ~ParseShouldFinish(reply.text)) =>
         /\ parsed.plan.action =
              [null |-> FALSE, name |-> <<"search">>,
               params |-> [EmptyParams EXCEPT !.query = reply.query]]
         /\ ~parsed.plan.shouldFinish
    /\ ~parsed.plan.shouldFinish => ~parsed.plan.action.null

\* A reply with a thought, no action and Final Answer: false got the
\* default action.
C10_Witness ==
  /\ parsed.done
  /\ reply.text = <<ThoughtLabel, "X", FinalLabel, "false">>
  /\ parsed.plan.action.name = <<"search">>
  /\ parsed.plan.action.params.query = reply.query

C12_ToolErrorCaught ==
  /\ [](\A p \in Procs :
          /\ (pc[p] = "acted" /\ planResult[p].action.name = <<"search">>
                /\ planResult[p].action.params.null) =>
               /\ actionResult[p].error = <<"Cannot read properties of null">>
               /\ actionResult[p].observation =
                    <<"Error executing", "search", ":">> \o actionResult[p].error
               /\ ~actionResult[p].hasSources
          /\ pc[p] = "done" => response[p].error = << >>)
  /\ [][\A p \in Procs :
          (pc[p] = "acted" /\ planResult[p].action.params.null /\ pc'[p] # "acted") =>
            pc'[p] \in {"planning", "forcing"}]_vars

\* C12: a session in which the tool threw has returned its response.
C12_Witness ==
  /\ pc[1] = "done"
  /\ actionResult[1].error = <<"Cannot read properties of null">>
  /\ response[1].error = << >>

\* The places of the source list of the execute call whose request succeeded.
Succeeded ==
  LET sources == EffectiveSources(searchCall.params)
  IN {i \in 1..Len(sources) : searchCall.settled[sources[i]].status = "fulfilled"}

Failed == {i \in 1..Len(EffectiveSources(searchCall.params)) : i \notin Succeeded}

\* What the request at place i of the source list returned.
Returned(i) == Catalogue(EffectiveSources(searchCall.params)[i])

RECURSIVE SumLen(_)
SumLen(places) ==
  IF places = {} THEN 0
  ELSE LET i == CHOOSE i \in places : TRUE
       IN Len(Returned(i)) + SumLen(places \ {i})

\* C13: when some requests of an execute call fail and others succeed, the
\* call returns a result without an error field; the result counts exactly
\* the results of the requests that succeeded, every evidence item comes
\* from one of them, and up to the cap of 5 none of their results is lost.
C13_FailureIsolated ==
  (searchResult.done /\ Succeeded # {} /\ Failed # {}) =>
    LET r == searchResult.result
    IN /\ r.error = << >>
       /\ r.hasSources
       /\ r.observation[2] = ToString(SumLen(Succeeded))
       /\ Len(r.sources) = Min({5, SumLen(Succeeded)})
       /\ \A k \in 1..Len(r.sources) :
            \E i \in Succeeded : \E j \in 1..Len(Returned(i)) :
              /\ r.sources[k].title = Returned(i)[j].title
              /\ r.sources[k].url = Returned(i)[j].url
              /\ r.sources[k].source = Returned(i)[j].source
       /\ SumLen(Succeeded) <= 5 =>
            \A i \in Succeeded : \A j \in 1..Len(Returned(i)) :
              \E k \in 1..Len(r.sources) : r.sources[k].title = Returned(i)[j].title

\* C13: of the requests to zoomCommunity, zoomSupport and google the second
\* failed, and the call returned the four results of the other two.
C13_Witness ==
  /\ searchResult.done
  /\ EffectiveSources(searchCall.params) = <<"zoomCommunity", "zoomSupport", "google">>
  /\ Succeeded = {1, 3}
  /\ Len(searchResult.result.sources) = 4
  /\ searchResult.result.error = << >>

\* The urls among the results of the requests that succeeded.
SucceededUrls == UNION {{Returned(i)[j].url : j \in 1..Len(Returned(i))} : i \in Succeeded}

\* C14: the evidence list an execute call returns holds no two items with
\* the same url, and its length is the smaller of 5 and the number of
\* distinct urls among the results of the requests that succeeded.
C14_EvidenceDeduplicated ==
  searchResult.done =>
    LET list == searchResult.result.sources
    IN /\ \A i, j \in 1..Len(list) : list[i].url = list[j].url => i = j
       /\ Len(list) = Min({5, Cardinality(SucceededUrls)})

\* C15: the ranked results of an execute call are the results of the
\* succeeded requests taken score by score from the highest down, and within
\* one score in the order of the source list and of each source's own list,
\* whatever the order in which the requests completed.
C15_RankingDeterministic ==
  searchResult.done =>
    LET sources == EffectiveSources(searchCall.params)
        fanOut(i) == IF i \in Succeeded THEN Returned(i) ELSE << >>
        inOrder[i \in 0..Len(sources)] ==
          IF i = 0 THEN << >> ELSE inOrder[i - 1] \o fanOut(i)
        all == inOrder[Len(sources)]
        scores == {all[k].relevance : k \in 1..Len(all)}
        WithScore(v) == SelectSeq(all, LAMBDA r : r.relevance = v)
        downFrom[v \in 0..100] ==
          IF v = 0 THEN << >>
          ELSE (IF v \in scores THEN WithScore(v) ELSE << >>) \o downFrom[v - 1]
        expected == Slice(downFrom[100], 5)
    IN /\ searchResult.topResults = expected
       /\ \A k \in 1..Len(expected) :
            /\ searchResult.result.sources[k].title = expected[k].title
            /\ searchResult.result.sources[k].url = expected[k].url
       /\ \A k \in 1..(Len(searchResult.topResults) - 1) :
            searchResult.topResults[k].relevance
              >= searchResult.topResults[k + 1].relevance

\* C15: the requests to zoomCommunity and zoomSupport completed in the
\* reverse of their order in the list; the two results with score 60 are
\* ranked in the order of the list, after the results with 70 and 65.
C15_Witness ==
  /\ searchResult.done
  /\ EffectiveSources(searchCall.params) = <<"zoomCommunity", "zoomSupport">>
  /\ searchCall.order = <<2, 1>>
  /\ Succeeded = {1, 2}
  /\ [k \in 1..4 |-> searchResult.result.sources[k].title] = <<"c1", "s1", "c2", "s2">>

\* C16: an execute call invokes the completion service once when its capped
\* list of top results is not empty and not at all when it is empty; when
\* that invocation fails the summary in the observation is the fixed text,
\* and the call still returns, without an error field, the evidence list it
\* returns when the invocation succeeds.
C16_SummaryOnceAndGuarded ==
  searchResult.done =>
    LET r == searchResult.result
        n == Len(searchResult.topResults)
        summary == SubSeq(r.observation, 6 + 4 * n + 1, Len(r.observation))
    IN /\ searchResult.completions = (IF n > 0 THEN 1 ELSE 0)
       /\ Len(r.sources) = n
       /\ r.observation[6 + 4 * n] = "Summary:"
       /\ n = 0 => summary = << >>
       /\ (n > 0 /\ searchCall.c.ok) => summary = searchCall.c.text
       /\ (n > 0 /\ ~searchCall.c.ok) =>
            /\ summary = <<"Unable to generate summary due to an error.">>
            /\ r.error = << >>
            /\ r.hasSources
            /\ \A k \in 1..n :
                 /\ r.sources[k].title = searchResult.topResults[k].title
                 /\ r.sources[k].url = searchResult.topResults[k].url
                 /\ r.sources[k].source = searchResult.topResults[k].source

\* C16: the summary call of an execute call with five top results failed.
C16_Witness ==
  /\ searchResult.done
  /\ ~searchCall.c.ok
  /\ searchResult.completions = 1
  /\ Len(searchResult.result.sources) = 5
  /\ searchResult.result.error = << >>

\* C17: when every completion call of a session failed (each planning call,
\* each summary call of the tool and the final synthesis), process() has
\* returned after exactly maxIterations iterations, each with one planning
\* call and one executeAction call, and its response has the apology of
\* generateFinalAnswer as answer and no error of the catch of process().
C17_AllCompletionsFail ==
  \A p \in Procs :
    (pc[p] = "done" /\ ~completed[p]) =>
      /\ mstate.iterations = maxIterations
      /\ planCalls[p] = maxIterations
      /\ execCalls[p] = maxIterations
      /\ finalCalls[p] = 1
      /\ response[p].answer =
           <<"I apologize, but I encountered an error while generating a response to your query.">>
      /\ response[p].error = << >>

\* C17: a session of two iterations in which the planning calls, the
\* summary calls and the final synthesis all failed has returned; its
\* searches had found evidence.
C17_Witness ==
  /\ pc[1] = "done"
  /\ ~completed[1]
  /\ maxIterations = 2
  /\ planCalls[1] = 2
  /\ response[1].sources # << >>

\* C18: a reply made of a Thought segment, an Action segment, an Action
\* Parameters segment holding a JSON object and a Final Answer flag, in this
\* order, is parsed to the decision whose thought is the trimmed Thought
\* text, whose action has the trimmed Action text as name and the parsed
\* object as params, and whose shouldFinish is the flag.
C18_StructuredReplyParsed ==
  parsed.done =>
    \A t \in ThoughtTexts, a \in ActionTexts, ps \in ParamsTexts, f \in FlagTexts :
      reply.text = StructuredReply(t, a, ps, f) =>
        parsed.plan =
          [thought |-> t.value,
           action |-> [null |-> FALSE, name |-> a.value, params |-> ps.value],
           shouldFinish |-> f.value]

\* C18: the reply Thought: X X / Action: search / Action Parameters: the
\* object with query "audio issue" / Final Answer: false has been parsed.
C18_Witness ==
  /\ parsed.done
  /\ reply.text =
       <<ThoughtLabel, WS, "X", "X", WS, ActionLabel, "search", ParamsLabel, WS,
         JsonQuery, WS, FinalLabel, WS, "false">>
  /\ parsed.plan.action.params.query = <<"audio issue">>
  /\ ~parsed.plan.shouldFinish

\* C19: the sources of a response built by formatResponse hold no two
\* entries with the same url and at most 5 entries: they are the first 5 of
\* the entries of state.sources that are the first with their url, in the
\* order of state.sources.  The response has debugInfo (the iteration count
\* and the trace) exactly when the debug flag is set.
C19_ResponseSources ==
  \A p \in Procs :
    (pc[p] = "done" /\ response[p].error = << >>) =>
      LET ev == mstate.sources
          list == response[p].sources
          IsFirst(i) == \A j \in 1..(i - 1) : ev[j].url # ev[i].url
          firsts[i \in 0..Len(ev)] ==
            IF i = 0 THEN << >>
            ELSE firsts[i - 1] \o (IF IsFirst(i) THEN <<ev[i]>> ELSE << >>)
          unique == firsts[Len(ev)]
      IN /\ \A i, j \in 1..Len(list) : list[i].url = list[j].url => i = j
         /\ Len(list) <= 5
         /\ list = SubSeq(unique, 1, Min({5, Len(unique)}))
         /\ response[p].hasDebugInfo = debug
         /\ debug => response[p].debugInfo =
                       [iterations |-> mstate.iterations,
                        conversationHistory |-> convs[mstate.conv]]

\* C19: a response was built from six evidence items, two of them with the
\* same url, with the debug flag set.
C19_Witness ==
  /\ pc[1] = "done"
  /\ debug
  /\ response[1].hasDebugInfo
  /\ Len(mstate.sources) = 6
  /\ Cardinality(Urls(mstate.sources)) = 5
  /\ Len(response[1].sources) = 5

\* C20: in a session whose first planning call asked for one search, whose
\* search returned exactly two results with different urls, scored 0.9 and
\* 0.6, and whose second planning call said to finish, the response has a
\* non-empty answer and exactly those two evidence items as sources, the
\* one scored 0.9 first.
C20_SearchThenFinish ==
  \A p \in Procs :
    (/\ pc[p] = "done"
     /\ planCalls[p] = 2
     /\ execCalls[p] = 1
     /\ planResult[p].shouldFinish
     /\ fetched[p] = {[title |-> "s1", url |-> "u3", source |-> "Zoom Support"],
                      [title |-> "s2", url |-> "u4", source |-> "Zoom Support"]})
      => /\ response[p].answer # << >>
         /\ response[p].error = << >>
         /\ response[p].sources =
              <<[title |-> "s1", url |-> "u3", source |-> "Zoom Support"],
                [title |-> "s2", url |-> "u4", source |-> "Zoom Support"]>>

\* C20: such a session has returned the answer of the completion service.
C20_Witness ==
  /\ pc[1] = "done"
  /\ planCalls[1] = 2
  /\ execCalls[1] = 1
  /\ finalCalls[1] = 1
  /\ planResult[1].shouldFinish
  /\ Len(actionResult[1].sources) = 2
  /\ actionResult[1].sources[1].title = "s1"
  /\ response[1].answer = <<"A">>
  /\ Len(response[1].sources) = 2

\* C21: within a session setFinalAnswer is called at most once, and once it
\* has been called the session makes no further planNextAction,
\* executeAction or setFinalAnswer call.
C21_AnswerSetOnce ==
  /\ [](\A p \in Procs : setCalls[p] <= 1)
  /\ [][\A p \in Procs :
          setCalls[p] >= 1 =>
            /\ planCalls'[p] = planCalls[p]
            /\ execCalls'[p] = execCalls[p]
            /\ setCalls'[p] = setCalls[p]]_vars

\* C21: the forced answer of a session was the empty text, which reads as
\* no answer, and the session has returned after that one call.
C21_Witness ==
  /\ pc[1] = "done"
  /\ setCalls[1] = 1
  /\ ~planResult[1].shouldFinish
  /\ mstate.finalAnswer = [null |-> FALSE, text |-> << >>]

\* C22: the trace of a session starts with the user entry holding the
\* query, and every step of the session after its initialisation leaves the
\* trace as it was, extended at its end or not at all.
C22_TraceAppendOnly ==
  /\ [](\A p \in Procs :
          (Running(p) \/ pc[p] = "done") =>
            /\ Len(convs[mstate.conv]) >= 1
            /\ convs[mstate.conv][1] = [role |-> "user", content |-> QueryOf(p)])
  /\ [][(\E p \in Procs : Running(p)) =>
          /\ mstate'.conv = mstate.conv
          /\ Len(convs'[mstate.conv]) >= Len(convs[mstate.conv])
          /\ SubSeq(convs'[mstate.conv], 1, Len(convs[mstate.conv]))
               = convs[mstate.conv]]_vars

\* C22: the trace of a returned session of two iterations holds the query,
\* two reasoning entries, two observations and the answer.
C22_Witness ==
  /\ pc[1] = "done"
  /\ planCalls[1] = 2
  /\ execCalls[1] = 2
  /\ Len(convs[mstate.conv]) = 6
  /\ convs[mstate.conv][1].role = "user"

\* C23: state.sources never holds two entries with the same url.
C23_EvidenceUrlsDistinct ==
  \A i, j \in 1..Len(mstate.sources) :
    mstate.sources[i].url = mstate.sources[j].url => i = j

\* C23: a search returned five items, two of them with the same url, and
\* the state holds four.
C23_Witness ==
  /\ pc[1] \in {"planning", "forcing"}
  /\ Len(actionResult[1].sources) = 5
  /\ Cardinality(Urls(actionResult[1].sources)) = 4
  /\ Len(mstate.sources) = 4

\* C24: state.iterations equals the number of planNextAction calls the
\* session has started; no step lowers it, and a step that changes it
\* raises it by one and starts a planNextAction call.
C24_IterationsCountPlans ==
  /\ [](\A p \in Procs : pc[p] # "off" => mstate.iterations = planCalls[p])
  /\ [][/\ mstate'.iterations >= mstate.iterations
         /\ mstate'.iterations # mstate.iterations =>
              /\ mstate'.iterations = mstate.iterations + 1
              /\ \E p \in Procs :
                   /\ pc'[p] = "planning"
                   /\ planCalls'[p] = planCalls[p] + 1]_vars

\* C24: the second planNextAction call of a session is pending and the
\* count is two; evidence has been merged in between.
C24_Witness ==
  /\ pc[1] = "planning"
  /\ planCalls[1] = 2
  /\ mstate.iterations = 2
  /\ mstate.sources # << >>

\* C25: a decision with shouldFinish set ends the iteration whatever action
\* it names: the step that follows it appends the reasoning entry and calls
\* generateFinalAnswer, not executeAction, and the step after that appends
\* the assistant entry holding the answer; neither step appends an
\* observation or changes the evidence.
C25_FinishIgnoresAction ==
  [][\A p \in Procs :
       /\ (pc[p] = "planned" /\ planResult[p].shouldFinish /\ pc'[p] # "planned") =>
            /\ pc'[p] = "finishing"
            /\ execCalls'[p] = execCalls[p]
            /\ finalCalls'[p] = finalCalls[p] + 1
            /\ mstate'.sources = mstate.sources
            /\ convs'[mstate.conv] =
                 Append(convs[mstate.conv],
                        [role |-> "system",
                         content |-> <<"Thinking:">> \o planResult[p].thought])
       /\ (pc[p] = "finishing" /\ pc'[p] # "finishing") =>
            /\ pc'[p] = "returning"
            /\ execCalls'[p] = execCalls[p]
            /\ mstate'.sources = mstate.sources
            /\ ~mstate'.finalAnswer.null
            /\ convs'[mstate.conv] =
                 Append(convs[mstate.conv],
                        [role |-> "assistant", content |-> mstate'.finalAnswer.text])]_vars

\* C25: the first decision of a session named the search tool and said to
\* finish; the session has returned without any executeAction call, its
\* trace holding the query, the reasoning and the answer.
C25_Witness ==
  /\ pc[1] = "done"
  /\ planResult[1].shouldFinish
  /\ planResult[1].action.name = <<"search">>
  /\ execCalls[1] = 0
  /\ Len(convs[mstate.conv]) = 3
  /\ convs[mstate.conv][3].role = "assistant"

\* The entries of the trace of the state store whose text starts with word.
Entries(word) ==
  {i \in 1..Len(convs[mstate.conv]) :
     /\ Len(convs[mstate.conv][i].content) > 0
     /\ convs[mstate.conv][i].content[1] = word}

\* C26: the steps of a session follow one another in a fixed order and one
\* at a time: a planNextAction call is pending only when every earlier
\* executeAction call has returned and its observation and evidence have
\* been recorded; executeAction is pending only when the planNextAction
\* call of the same iteration has returned and its reasoning is recorded;
\* and the session moves from one step to the next in the order planning,
\* acting, merging, planning again (or to the final answer).
C26_StepsInOrder ==
  /\ [](\A p \in Procs :
          /\ pc[p] \in {"planning", "planned"} =>
               /\ planCalls[p] = execCalls[p] + 1
               /\ Cardinality(Entries("Observation from")) = execCalls[p]
               /\ Cardinality(Entries("Thinking:")) = planCalls[p] - 1
          /\ pc[p] \in {"acting", "acted"} =>
               /\ execCalls[p] = planCalls[p]
               /\ Cardinality(Entries("Thinking:")) = planCalls[p]
               /\ Cardinality(Entries("Observation from")) = execCalls[p] - 1)
  /\ [][\A p \in Procs :
          pc'[p] # pc[p] =>
            <<pc[p], pc'[p]>> \in
              {<<"idle", "planning">>, <<"planning", "planned">>,
               <<"planned", "acting">>, <<"planned", "finishing">>,
               <<"acting", "acted">>, <<"acted", "planning">>,
               <<"acted", "forcing">>, <<"finishing", "returning">>,
               <<"forcing", "returning">>, <<"returning", "done">>}]_vars

\* C26: the executeAction call of the second iteration is pending; the
\* evidence of the first has been merged.
C26_Witness ==
  /\ pc[1] = "acting"
  /\ planCalls[1] = 2
  /\ execCalls[1] = 2
  /\ mstate.sources # << >>
  /\ Cardinality(Entries("Observation from")) = 1

\* C27: the trace of a session that has returned is the user entry with the
\* query, then for each iteration a reasoning entry followed, unless the
\* decision ended the loop, by one observation entry tagged with the tool
\* the decision named, and last the assistant entry with the answer.
C27_TraceShape ==
  \A p \in Procs :
    (pc[p] = "done" /\ response[p].error = << >>) =>
      LET t == convs[mstate.conv]
          n == Len(t)
          IsReasoning(i) == i \in Entries("Thinking:") /\ t[i].role = "system"
          IsObservation(i) == i \in Entries("Observation from") /\ t[i].role = "system"
      IN /\ n >= 3
         /\ t[1] = [role |-> "user", content |-> QueryOf(p)]
         /\ t[n] = [role |-> "assistant", content |-> mstate.finalAnswer.text]
         /\ IsReasoning(2)
         /\ \A i \in 2..(n - 1) :
              /\ IsReasoning(i) \/ IsObservation(i)
              /\ IsObservation(i) =>
                   /\ IsReasoning(i - 1)
                   /\ t[i].content[2] \in {"search", "lookup"}
                   /\ t[i].content[3] = ":"
                   /\ (t[i].content[2] = "lookup") =
                        (SubSeq(t[i].content, 4, Len(t[i].content))
                           = <<"Error: Tool", "lookup", "not found">>)
              /\ (IsReasoning(i) /\ i < n - 1) => IsObservation(i + 1)
         /\ IsObservation(n - 1) =>
              /\ ~planResult[p].shouldFinish
              /\ <<t[n - 1].content[2]>> = planResult[p].action.name
         /\ IsReasoning(n - 1) => planResult[p].shouldFinish
         /\ Cardinality(Entries("Thinking:")) = planCalls[p]
         /\ Cardinality(Entries("Observation from")) = execCalls[p]

\* C27: a session whose first decision named an unknown tool and whose
\* second said to finish has returned: its trace is the query, a reasoning
\* entry, the observation of that tool, a reasoning entry and the answer.
C27_Witness ==
  /\ pc[1] = "done"
  /\ planResult[1].shouldFinish
  /\ Len(convs[mstate.conv]) = 5
  /\ convs[mstate.conv][3].content[2] = "lookup"
  /\ convs[mstate.conv][4].content[1] = "Thinking:"
  /\ convs[mstate.conv][5].role = "assistant"

\* C28: when the answer of a returned session was forced (the last decision
\* did not finish), the evidence list embedded in the prompt of
\* generateFinalAnswer is the list the response was built from: the
\* response's sources are its first 5 entries with distinct urls, and it
\* holds the evidence returned by the tool call of the last iteration.
C28_ForcedAnswerSeesEvidence ==
  \A p \in Procs :
    (/\ pc[p] = "done"
     /\ response[p].error = << >>
     /\ finalCalls[p] = 1
     /\ ~planResult[p].shouldFinish) =>
      /\ prompt[p].sources = mstate.sources
      /\ response[p].sources = Slice(DedupByUrl(prompt[p].sources, {}), ResponseCap)
      /\ actionResult[p].hasSources =>
           Urls(actionResult[p].sources) \subseteq Urls(prompt[p].sources)

\* C29: recording the result of a tool call that returned an error, or an
\* empty evidence list, leaves the evidence list of the state store, from
\* which the response is built, as it was.
C29_EmptyResultKeepsEvidence ==
  [][\A p \in Procs :
       (/\ pc[p] = "acted"
        /\ pc'[p] # "acted"
        /\ (actionResult[p].error # << >> \/ actionResult[p].sources = << >>)) =>
         mstate'.sources = mstate.sources]_vars

\* C30: when two process() calls overlap on the one agent, each of them has
\* made at most maxIterations planNextAction calls and at most one
\* generateFinalAnswer call.
C30_CallsBoundedPerSession ==
  \A p \in Procs :
    /\ planCalls[p] <= maxIterations
    /\ finalCalls[p] <= 1

\* C31: every response returned by process() has a non-empty answer: the
\* response of the catch block, and the formatted response also when the
\* final answer held by the state store is the empty text (an outcome of
\* the generateFinalAnswer completion) or was never set.
C31_AnswerNeverEmpty ==
  \A p \in Procs : pc[p] = "done" => response[p].answer # << >>

\* C31: of two overlapping sessions, one has returned the formatted response
\* although no answer was ever set, and the other has returned the response
\* of the catch block.
C31_Witness ==
  /\ pc = <<"done", "done">>
  /\ mstate.finalAnswer.null
  /\ setCalls = <<0, 0>>
  /\ response[1].error = << >>
  /\ response[1].answer = Unable
  /\ response[2].error = <<"tool crashed">>
  /\ response[2].answer = DegradedResponse(<<"tool crashed">>).answer

\* C32: when the context of the session holds the sources the caller
\* selected and the params of the decided action name no sources, the search
\* requests go only to the sources of the context: the observation counts
\* as many sources as the context holds, and every evidence item returned
\* comes from the connector of one of them.
C32_SearchesSelectedSources ==
  \A p \in Procs :
    (/\ pc[p] = "acted"
     /\ actionResult[p].hasSources
     /\ ~planResult[p].action.params.hasSources) =>
      LET selected == Range(Deref(Heap, p).context.sources)
          requested == EffectiveSources(planResult[p].action.params)
      IN /\ Range(requested) \subseteq selected
         /\ actionResult[p].observation[4] = ToString(Cardinality(selected))
         /\ \A i \in 1..Len(actionResult[p].sources) :
              \E s \in selected :
                \E j \in 1..Len(Catalogue(s)) :
                  actionResult[p].sources[i] = ToEvidence(Catalogue(s)[j])

\* C33: for a reply that has a Thought: segment, no Action: segment and no
\* finish signal (its Final Answer flag is false or absent), the decision
\* of planNextAction has the trimmed Thought text of the reply as its
\* thought, not the report of a planning error, and the action search with
\* the query of the session.
C33_ThoughtKeptWithDefaultAction ==
  (/\ parsed.done
   /\ Occurrences(reply.text, ThoughtLabel) # {}
   /\ Occurrences(reply.text, ActionLabel) = {}
   /\ ~ParseShouldFinish(reply.text)) =>
     LET from == Min(Occurrences(reply.text, ThoughtLabel))
         stops == {i \in Occurrences(reply.text, FinalLabel) : i > from}
         to == IF stops = {} THEN Len(reply.text) + 1 ELSE Min(stops)
     IN /\ parsed.plan.thought = Trim(SubSeq(reply.text, from + 1, to - 1))
        /\ (parsed.plan.thought = << >> \/ parsed.plan.thought[1] # PlanErrorPrefix)
        /\ parsed.plan.action =
             [null |-> FALSE, name |-> <<"search">>,
              params |-> [EmptyParams EXCEPT !.query = reply.query]]
        /\ ~parsed.plan.shouldFinish

\* C34: for a reply with an Action: segment, the name of the decided action
\* is the trimmed text between the first Action: and the next Action
\* Parameters: or Final Answer: label, or the end of the reply, when that
\* text is not empty; when it names a registered tool, the tool is found.
C34_ActionNameStopsAtNextLabel ==
  (parsed.done /\ Occurrences(reply.text, ActionLabel) # {}) =>
    LET from == Min(Occurrences(reply.text, ActionLabel))
        stops == {i \in Occurrences(reply.text, ParamsLabel)
                          \cup Occurrences(reply.text, FinalLabel) : i > from}
        to == IF stops = {} THEN Len(reply.text) + 1 ELSE Min(stops)
        name == Trim(SubSeq(reply.text, from + 1, to - 1))
    IN name # << >> =>
         /\ ~parsed.plan.action.null
         /\ parsed.plan.action.name = name
         /\ HasTool(name) => HasTool(parsed.plan.action.name)

====
